---------------------------- MODULE Spec2Model ----------------------------
(* FiltroBox12: PII detection and redaction.                               *)
(*                                                                         *)
(* Strings are sequences of one-character strings.  The module holds       *)
(* several specifications over one set of variables:                       *)
(*   Spec         - a scan (analyzeText) followed by the interactive       *)
(*                  redaction of its result in AnalysisView;               *)
(*   FairSpec     - Spec with the fairness the JavaScript event loop gives *)
(*                  to the program's own continuations;                    *)
(*   ServiceSpec  - analyzeText on its own;                                *)
(*   LabelSpec    - analyzeText answered with free-text labels;            *)
(*   RulesSpec    - the rule list of App and the RulesConfig editor;       *)
(*   AppSpec      - App over several scans, with navigation, typing and    *)
(*                  the timer of handleSend;                               *)
(*   SettingsSpec - SettingsView and its model discovery.                  *)
EXTENDS Integers, Sequences, FiniteSets, TLC

VARIABLES
    inputText,       \* App: inputText
    isAnalyzing,     \* App: isAnalyzing
    result,          \* App: result (NoResult = null)
    view,            \* App: view
    call,            \* the analyzeText call of the running handleAnalyze
    activeEntities,  \* AnalysisView: activeEntities (ids)
    crashed,         \* a render threw: React unmounted the tree
    rules,           \* App: rules
    isModalOpen,     \* RulesConfig: isModalOpen
    editingId,       \* RulesConfig: editingId (NoId = null)
    error,           \* RulesConfig: error (NoError = null)
    fieldErrors,     \* RulesConfig: fieldErrors, the set of flagged fields
    now,             \* the clock Date.now() reads when a rule is created
    ops,             \* number of rule-list mutations so far (bounded)
    showToast,       \* App: showToast
    sendTimers,      \* the pending timers of handleSend, oldest first
    scanNo,          \* number of scans that have set their result (bounded)
    localOllamaSettings,  \* SettingsView: localOllamaSettings
    ollamaSettings,  \* the settings of the parent (onUpdateSettings)
    models,          \* SettingsView: models (names)
    isFetchingModels,     \* SettingsView: isFetchingModels
    urlError,        \* SettingsView: urlError (NoError = null)
    fetchSuccess,    \* SettingsView: fetchSuccess
    discovery        \* the fetchModels call in flight, with its closure

sendVars == <<showToast, sendTimers, scanNo>>
scanVars == <<inputText, isAnalyzing, result, view, call, activeEntities, crashed,
              showToast, sendTimers, scanNo>>
ruleVars == <<rules, isModalOpen, editingId, error, fieldErrors, now, ops>>
settingsVars == <<localOllamaSettings, ollamaSettings, models, isFetchingModels,
                  urlError, fetchSuccess, discovery>>
vars == <<inputText, isAnalyzing, result, view, call, activeEntities, crashed,
          rules, isModalOpen, editingId, error, fieldErrors, now, ops,
          showToast, sendTimers, scanNo,
          localOllamaSettings, ollamaSettings, models, isFetchingModels,
          urlError, fetchSuccess, discovery>>

-----------------------------------------------------------------------------
(* Bounds                                                                  *)

MaxLen == 2
MaxEntities == 2
MaxOps == 2

-----------------------------------------------------------------------------
(* Strings                                                                 *)

Alphabet == {"a", "b"}

StringsUpTo(n) == UNION {[1..k -> Alphabet] : k \in 0..n}

\* The value of a property that is absent from a parsed JSON object.
Undefined == <<"undefined">>

Min(S) == CHOOSE x \in S : \A y \in S : x <= y

Max(S) == CHOOSE x \in S : \A y \in S : x >= y

\* Positions at which sub occurs in s (String.prototype.indexOf, all hits).
Occurrences(s, sub) ==
    {i \in 1..(Len(s) - Len(sub) + 1) : SubSeq(s, i, i + Len(sub) - 1) = sub}

includes(s, sub) == Occurrences(s, sub) # {}

RECURSIVE trimStart(_)
trimStart(s) ==
    IF s # <<>> /\ Head(s) = " " THEN trimStart(Tail(s)) ELSE s

RECURSIVE trimEnd(_)
trimEnd(s) ==
    IF s # <<>> /\ s[Len(s)] = " " THEN trimEnd(SubSeq(s, 1, Len(s) - 1)) ELSE s

trim(s) == trimEnd(trimStart(s))

\* String.prototype.split with a non-empty string separator: leftmost,
\* non-overlapping occurrences.
RECURSIVE splitAt(_, _)
splitAt(s, sep) ==
    LET hits == Occurrences(s, sep)
    IN  IF hits = {} THEN <<s>>
        ELSE LET i == Min(hits)
             IN  <<SubSeq(s, 1, i - 1)>> \o
                 splitAt(SubSeq(s, i + Len(sep), Len(s)), sep)

\* String.prototype.split(sep): an undefined separator gives the whole
\* string, the empty separator gives the characters.
split(s, sep) ==
    IF sep = Undefined THEN <<s>>
    ELSE IF sep = <<>> THEN [i \in 1..Len(s) |-> <<s[i]>>]
    ELSE splitAt(s, sep)

\* parts[lo] glue parts[lo+1] glue ... parts[hi], halving the range so that
\* the evaluation stays shallow on long arrays.
RECURSIVE joinRange(_, _, _, _)
joinRange(parts, glue, lo, hi) ==
    IF lo = hi THEN parts[lo]
    ELSE LET mid == (lo + hi) \div 2
         IN  joinRange(parts, glue, lo, mid) \o glue \o
             joinRange(parts, glue, mid + 1, hi)

\* Array.prototype.join(glue)
join(parts, glue) ==
    IF Len(parts) = 0 THEN <<>> ELSE joinRange(parts, glue, 1, Len(parts))

-----------------------------------------------------------------------------
(* Label normalisation (services/piiService.ts)                            *)

LowerCase == <<"a", "b", "c", "d", "e", "f", "g", "h", "i", "j", "k", "l", "m",
               "n", "o", "p", "q", "r", "s", "t", "u", "v", "w", "x", "y", "z">>

UpperCase == <<"A", "B", "C", "D", "E", "F", "G", "H", "I", "J", "K", "L", "M",
               "N", "O", "P", "Q", "R", "S", "T", "U", "V", "W", "X", "Y", "Z">>

\* Mutant of toUpperCase: the letters keep their case.
toUpperCaseKept(s) == s

toUpperCase(s) ==
    [i \in 1..Len(s) |->
        IF \E k \in 1..26 : LowerCase[k] = s[i]
        THEN UpperCase[CHOOSE k \in 1..26 : LowerCase[k] = s[i]]
        ELSE s[i]]

\* JavaScript truthiness of a string-valued property.
falsy(str) == str = Undefined \/ str = <<>>

mapStringToPiiType(str) ==
    IF falsy(str) THEN "CUSTOM"
    ELSE LET upper == toUpperCase(str)
         IN  IF includes(upper, <<"E", "M", "A", "I", "L">>) THEN "EMAIL"
             ELSE IF includes(upper, <<"P", "H", "O", "N", "E">>) THEN "PHONE"
             ELSE IF includes(upper, <<"C", "A", "R", "D">>) THEN "CREDIT_CARD"
             ELSE IF includes(upper, <<"S", "S", "N">>) THEN "SSN"
             ELSE IF includes(upper, <<"K", "E", "Y">>)
                     \/ includes(upper, <<"T", "O", "K", "E", "N">>) THEN "API_KEY"
             ELSE IF includes(upper, <<"I", "P">>) THEN "IP_ADDRESS"
             ELSE IF includes(upper, <<"N", "A", "M", "E">>)
                     \/ includes(upper, <<"P", "E", "R", "S", "O", "N">>) THEN "NAME"
             ELSE IF includes(upper, <<"L", "O", "C">>)
                     \/ includes(upper, <<"A", "D", "D", "R", "E", "S", "S">>)
                  THEN "LOCATION"
             ELSE "CUSTOM"

mapStringToSensitivity(str) ==
    IF falsy(str) THEN "LOW"
    ELSE LET upper == toUpperCase(str)
         IN  IF upper = <<"H", "I", "G", "H">> THEN "HIGH"
             ELSE IF upper = <<"M", "E", "D", "I", "U", "M">> THEN "MEDIUM"
             ELSE "LOW"

-----------------------------------------------------------------------------
(* What an inference backend can answer                                    *)

\* The entity objects of a parsed payload.  text is required by the schema,
\* but nothing in analyzeText checks that.  replacement is optional and is
\* left out here: every entity gets the default its type label gives.
RawEntities ==
    [text : StringsUpTo(MaxLen) \cup {Undefined},
     type : {<<"a">>},
     sensitivity : {<<"H", "I", "G", "H">>},
     replacement : {Undefined}]

RawEntityLists == UNION {[1..k -> RawEntities] : k \in 0..MaxEntities}

\* The object "{}": every field is absent, which `||` treats like an empty
\* list, 0 and the empty string.
EmptyPayload ==
    [entities |-> <<>>, riskScore |-> 0, summary |-> <<>>, classification |-> ""]

\* Numbers outside the range the prompt asks for.
StrayRiskScores == {-1, 101}

Payloads ==
    [entities : RawEntityLists, riskScore : {50}, summary : {<<"S">>},
     classification : {"Doc"}]
    \cup {EmptyPayload}
    \cup {[EmptyPayload EXCEPT !.riskScore = r] : r \in StrayRiskScores}

Engines == {"GEMINI", "OLLAMA"}

\* How the request of an engine can end.  A non-success HTTP status is seen
\* by analyzeWithOllama itself; the cloud SDK rejects instead.
Outcomes(engine) ==
    {[kind |-> "rejected"], [kind |-> "bad_json"], [kind |-> "json_null"]}
    \cup (IF engine = "OLLAMA" THEN {[kind |-> "http_error"]} ELSE {})
    \cup {[kind |-> "json", data |-> d] : d \in Payloads}

-----------------------------------------------------------------------------
(* analyzeText (services/piiService.ts)                                    *)

NoResult == [none |-> TRUE]

\* `[REDACTED ${e.type}]`
defaultReplacement(type) ==
    <<"[", "R", "E", "D", "A", "C", "T", "E", "D", " ">> \o type \o <<"]">>

\* (data.entities || []).map(...); ids are `entity-${index}-${Date.now()}`,
\* told apart by the index.
normalizeEntities(raw) ==
    [i \in 1..Len(raw) |->
        [id |-> i - 1,
         text |-> raw[i].text,
         type |-> mapStringToPiiType(raw[i].type),
         level |-> mapStringToSensitivity(raw[i].sensitivity),
         start |-> 0,
         end |-> 0,
         replacement |-> IF falsy(raw[i].replacement)
                         THEN defaultReplacement(raw[i].type)
                         ELSE raw[i].replacement]]

\* entities.forEach(entity => sanitized = sanitized.split(...).join(...))
RECURSIVE sanitizeInOrder(_, _)
sanitizeInOrder(text, entities) ==
    IF entities = <<>> THEN text
    ELSE sanitizeInOrder(
             join(split(text, Head(entities).text), Head(entities).replacement),
             Tail(entities))

\* The return of the try block.  processingTime is a wall-clock reading and
\* is left out of the record.
successResult(text, data) ==
    LET entities == normalizeEntities(data.entities)
    IN  [originalText |-> text,
         sanitizedText |-> sanitizeInOrder(text, entities),
         entities |-> entities,
         riskScore |-> data.riskScore,
         summary |-> IF falsy(data.summary)
                     THEN <<"No summary available.">>
                     ELSE data.summary,
         classification |-> IF data.classification = ""
                            THEN "Unknown Data Type"
                            ELSE data.classification]

\* The return of the catch block.
fallbackResult(text, message) ==
    [originalText |-> text,
     sanitizedText |-> text,
     entities |-> <<>>,
     riskScore |-> 0,
     summary |-> <<"Analysis failed: ", message>>,
     classification |-> "Error"]

\* analyzeText from the point where the backend has answered.
analyzeTextResume(text, outcome) ==
    CASE outcome.kind = "rejected" -> fallbackResult(text, "Failed to fetch")
      [] outcome.kind = "http_error" -> fallbackResult(text, "Ollama API Error")
      [] outcome.kind = "bad_json" -> fallbackResult(text, "Invalid JSON response")
      [] outcome.kind = "json_null" ->
             fallbackResult(text, "Cannot read properties of null")
      [] outcome.kind = "json" -> successResult(text, outcome.data)

\* Mutant of resolveApiKey: the process-wide key goes first.
resolveApiKeyEnvFirst(cloudKey, envKey) == IF envKey # "" THEN envKey ELSE cloudKey

\* cloudSettings?.apiKey || process.env.API_KEY
resolveApiKey(cloudKey, envKey) == IF cloudKey # "" THEN cloudKey ELSE envKey

\* A URL is a sequence of tokens: a scheme, "//", a host, "/".
Urls ==
    {<<>>, <<"h">>, <<"http:", "//", "h">>, <<"http:", "//", "h", "/">>}

\* new URL(url) throws unless the text starts with a scheme and an authority.
newURLThrows(url) ==
    ~(Len(url) >= 3 /\ url[1] \in {"http:", "https:"} /\ url[2] = "//"
      /\ url[3] \notin {"/", "//"})

\* url.replace(/\/$/, '')
stripTrailingSlash(url) ==
    IF url # <<>> /\ url[Len(url)] = "/" THEN SubSeq(url, 1, Len(url) - 1)
    ELSE url

\* `${settings.url.replace(/\/$/, '')}/api/generate`
generateEndpoint(url) == stripTrailingSlash(url) \o <<"/api/generate">>

\* The endpoint the cloud SDK posts to.
GeminiEndpoint == <<"https:", "//", "generativelanguage", "/generateContent">>

\* analyzeText up to its first await: either the call has already failed, or
\* a request to the engine is in flight.
NoCall == [state |-> "none"]

analyzeTextStart(text, engine, cloudKey, envKey, url, model) ==
    IF engine = "OLLAMA"
    THEN IF url = <<>> \/ model = ""
         THEN [state |-> "resolved",
               value |-> fallbackResult(text, "Ollama settings incomplete")]
         ELSE [state |-> "inflight", text |-> text, engine |-> engine,
               endpoint |-> generateEndpoint(url), apiKey |-> ""]
    ELSE IF resolveApiKey(cloudKey, envKey) = ""
         THEN [state |-> "resolved",
               value |-> fallbackResult(text, "No Gemini API Key provided")]
         ELSE [state |-> "inflight", text |-> text, engine |-> engine,
               endpoint |-> GeminiEndpoint,
               apiKey |-> resolveApiKey(cloudKey, envKey)]

-----------------------------------------------------------------------------
(* AnalysisView (components/AnalysisView.tsx)                              *)

entityIds(res) == {res.entities[i].id : i \in 1..Len(res.entities)}

\* [...entities].sort((a, b) => b.text.length - a.text.length); the sort is
\* stable.
RECURSIVE sortDescFrom(_, _)
sortDescFrom(entities, k) ==
    IF k < 0 THEN <<>>
    ELSE SelectSeq(entities, LAMBDA e : Len(e.text) = k) \o
         sortDescFrom(entities, k - 1)

sortedByLen(entities) ==
    IF entities = <<>> THEN <<>>
    ELSE sortDescFrom(entities,
                      Max({Len(entities[i].text) : i \in 1..Len(entities)}))

\* The comparator reads text.length of both arguments and is called as soon
\* as there are two elements: an entity without text makes it throw.
renderThrows(res) ==
    /\ Len(res.entities) >= 2
    /\ \E i \in 1..Len(res.entities) : res.entities[i].text = Undefined

\* Mutant of replaceActive: the activeEntities.has(entity.id) test is lost.
RECURSIVE replaceActiveAlways(_, _, _)
replaceActiveAlways(text, sorted, active) ==
    IF sorted = <<>> THEN text
    ELSE replaceActiveAlways(
             join(split(text, Head(sorted).text), Head(sorted).replacement),
             Tail(sorted), active)

\* sortedByLen.forEach(entity => { if (activeEntities.has(entity.id)) ... })
RECURSIVE replaceActive(_, _, _)
replaceActive(text, sorted, active) ==
    IF sorted = <<>> THEN text
    ELSE replaceActive(
             IF Head(sorted).id \in active
             THEN join(split(text, Head(sorted).text), Head(sorted).replacement)
             ELSE text,
             Tail(sorted), active)

dynamicSanitizedText(res, active) ==
    replaceActive(res.originalText, sortedByLen(res.entities), active)

\* Mutant of toggled: switching an id on switches the others off.
toggledAlone(active, id) == IF id \in active THEN active \ {id} ELSE {id}

toggled(active, id) ==
    IF id \in active THEN active \ {id} ELSE active \cup {id}

\* The alternative of `(${patterns})` that matches at offset q: the first
\* entity, in list order, whose text stands there; 0 when none does.
matchAt(text, entities, q) ==
    LET hits == {i \in 1..Len(entities) :
                    /\ q + Len(entities[i].text) <= Len(text)
                    /\ SubSeq(text, q + 1, q + Len(entities[i].text))
                           = entities[i].text}
    IN  IF hits = {} THEN 0 ELSE Min(hits)

\* text.split(regex) with one capture group: p is where the current piece
\* starts, q where a match is tried; a match that ends at p is passed over,
\* and every match contributes the piece before it and the captured text.
RECURSIVE splitParts(_, _, _, _)
splitParts(text, entities, p, q) ==
    IF q >= Len(text) THEN <<SubSeq(text, p + 1, Len(text))>>
    ELSE LET i == matchAt(text, entities, q)
             e == q + Len(entities[i].text)
         IN  IF i = 0 \/ e = p THEN splitParts(text, entities, p, q + 1)
             ELSE <<SubSeq(text, p + 1, q), entities[i].text>> \o
                  splitParts(text, entities, e, e)

\* The id of a segment that belongs to no entity.
NoEntity == -1

\* A part of the split as renderHighlightedText shows it:
\* result.entities.find(e => e.text === part) decides whose it is.
segmentOf(part, entities, active) ==
    LET same == {i \in 1..Len(entities) : entities[i].text = part}
    IN  IF same = {} THEN [text |-> part, id |-> NoEntity, active |-> FALSE]
        ELSE [text |-> part,
              id |-> entities[Min(same)].id,
              active |-> entities[Min(same)].id \in active]

\* renderHighlightedText: the segments of the highlight view, in order.
renderHighlightedText(res, active) ==
    LET text == res.originalText
        entities == res.entities
        entitiesWithIndex ==
            SelectSeq(entities,
                      LAMBDA e : e.text # Undefined /\ includes(text, e.text))
        patternsEmpty == Len(entities) = 1 /\ entities[1].text = <<>>
        splitText == IF text = <<>> THEN <<>>
                     ELSE splitParts(text, entities, 0, 0)
    IN  IF entitiesWithIndex = <<>> \/ patternsEmpty
        THEN <<[text |-> text, id |-> NoEntity, active |-> FALSE]>>
        ELSE [k \in 1..Len(splitText) |->
                 segmentOf(splitText[k], entities, active)]

-----------------------------------------------------------------------------
(* The rule list as App constructs it                                      *)

NoId == <<>>

NoError == "null"

\* Each seeded pattern is one opaque token: a well-formed expression.
DefaultRules ==
    << [id |-> <<"1">>, name |-> <<"Credit Cards">>, type |-> "CREDIT_CARD",
        enabled |-> TRUE, description |-> <<"d1">>, level |-> "HIGH",
        pattern |-> <<"card16">>],
       [id |-> <<"2">>, name |-> <<"Email Addresses">>, type |-> "EMAIL",
        enabled |-> TRUE, description |-> <<"d2">>, level |-> "MEDIUM",
        pattern |-> <<"email">>],
       [id |-> <<"3">>, name |-> <<"US SSN">>, type |-> "SSN",
        enabled |-> TRUE, description |-> <<"d3">>, level |-> "HIGH",
        pattern |-> <<"ssn">>],
       [id |-> <<"4">>, name |-> <<"AWS API Keys">>, type |-> "API_KEY",
        enabled |-> TRUE, description |-> <<"d4">>, level |-> "HIGH",
        pattern |-> <<"aws20">>],
       [id |-> <<"5">>, name |-> <<"IP Addresses">>, type |-> "IP_ADDRESS",
        enabled |-> FALSE, description |-> <<"d5">>, level |-> "LOW",
        pattern |-> <<"ipv4">>] >>

\* The rule RulesConfig creates from the form (name "n", pattern "a").
LiteralRule ==
    [id |-> <<"custom", 1>>, name |-> <<"n">>, type |-> "CUSTOM",
     description |-> <<"Custom detection rule">>, enabled |-> TRUE,
     level |-> "MEDIUM", pattern |-> <<"a">>]

RulesInit ==
    /\ rules = DefaultRules
    /\ isModalOpen = FALSE
    /\ editingId = NoId
    /\ error = NoError
    /\ fieldErrors = {}
    /\ now = 0
    /\ ops = 0

\* No send has been made and no scan has completed.
SendInit ==
    /\ showToast = FALSE
    /\ sendTimers = <<>>
    /\ scanNo = 0

NoDiscovery == [state |-> "none"]

BlankSettings == [url |-> <<>>, model |-> "", apiKey |-> ""]

\* SettingsView is not on the screen.
SettingsClosed ==
    /\ localOllamaSettings = BlankSettings
    /\ ollamaSettings = BlankSettings
    /\ models = <<>>
    /\ isFetchingModels = FALSE
    /\ urlError = NoError
    /\ fetchSuccess = FALSE
    /\ discovery = NoDiscovery

-----------------------------------------------------------------------------
(* Spec: one payload text, scanned, then reviewed in AnalysisView.  The   *)
(* rule list is the seeded one, or the seeded one with one custom rule    *)
(* added through RulesConfig.                                              *)

InputTexts == (StringsUpTo(MaxLen) \cup {<<" ">>})

Init ==
    /\ inputText \in InputTexts
    /\ isAnalyzing = FALSE
    /\ result = NoResult
    /\ view = "LANDING"
    /\ call = NoCall
    /\ activeEntities = {}
    /\ crashed = FALSE
    /\ isModalOpen = FALSE
    /\ editingId = NoId
    /\ error = NoError
    /\ fieldErrors = {}
    /\ \/ rules = DefaultRules /\ now = 0 /\ ops = 0
       \/ rules = Append(DefaultRules, LiteralRule) /\ now = 1 /\ ops = 1
    /\ SendInit
    /\ SettingsClosed

\* Mutant of handleAnalyze: the button stays enabled while a scan runs.
handleAnalyzeAgain ==
    /\ view = "LANDING"
    /\ ~crashed
    /\ trim(inputText) # <<>>
    /\ \E engine \in Engines, cloudKey \in {"", "AIza1"}, envKey \in {"", "AIza2"},
          url \in Urls, model \in {"", "m"} :
          call' = analyzeTextStart(inputText, engine, cloudKey, envKey, url, model)
    /\ isAnalyzing' = TRUE
    /\ UNCHANGED <<inputText, result, view, activeEntities, crashed>>
    /\ UNCHANGED <<sendVars, ruleVars, settingsVars>>

\* App.handleAnalyze up to its await, with the synchronous part of the
\* analyzeText call it makes.  The button is disabled while a scan runs.
handleAnalyze ==
    /\ view = "LANDING"
    /\ ~crashed
    /\ ~isAnalyzing
    /\ trim(inputText) # <<>>
    /\ \E engine \in Engines, cloudKey \in {"", "AIza1"}, envKey \in {"", "AIza2"},
          url \in Urls, model \in {"", "m"} :
          call' = analyzeTextStart(inputText, engine, cloudKey, envKey, url, model)
    /\ isAnalyzing' = TRUE
    /\ UNCHANGED <<inputText, result, view, activeEntities, crashed>>
    /\ UNCHANGED <<sendVars, ruleVars, settingsVars>>

\* Mutant of finishAnalyze: the active set is never initialised.
finishAnalyzeStale(value) ==
    /\ result' = value
    /\ isAnalyzing' = FALSE
    /\ view' = "ANALYSIS"
    /\ call' = NoCall
    /\ crashed' = renderThrows(value)
    /\ scanNo' = scanNo + 1
    /\ UNCHANGED <<inputText, activeEntities, showToast, sendTimers>>
    /\ UNCHANGED <<ruleVars, settingsVars>>

\* handleAnalyze after Promise.all: setResult, setIsAnalyzing(false),
\* setView('ANALYSIS').  AnalysisView mounts with every entity active; an
\* AnalysisView that is mounted already keeps its state, since the
\* initialiser of useState runs at the mount only.
finishAnalyze(value) ==
    /\ result' = value
    /\ isAnalyzing' = FALSE
    /\ view' = "ANALYSIS"
    /\ call' = NoCall
    /\ crashed' = renderThrows(value)
    /\ activeEntities' = IF renderThrows(value) THEN {}
                         ELSE IF view = "ANALYSIS" THEN activeEntities
                         ELSE entityIds(value)
    /\ scanNo' = scanNo + 1
    /\ UNCHANGED <<inputText, showToast, sendTimers>>
    /\ UNCHANGED <<ruleVars, settingsVars>>

\* The engine answers the request in flight: analyzeText runs to its return
\* and handleAnalyze continues.
BackendResponds ==
    /\ call.state = "inflight"
    /\ \E outcome \in Outcomes(call.engine) :
          finishAnalyze(analyzeTextResume(call.text, outcome))

\* The call failed before any request was made: handleAnalyze continues
\* once the minimum delay of 1500 ms is over.
AnalysisDone ==
    /\ call.state = "resolved"
    /\ finishAnalyze(call.value)

toggleEntity ==
    /\ view = "ANALYSIS"
    /\ ~crashed
    /\ \E id \in entityIds(result) : activeEntities' = toggled(activeEntities, id)
    /\ UNCHANGED <<inputText, isAnalyzing, result, view, call, crashed>>
    /\ UNCHANGED <<sendVars, ruleVars, settingsVars>>

\* App.handleSend: the payload is logged, the toast is shown and a timer of
\* 3000 ms is set.  The timer remembers, for the record, the scan on the
\* screen and whether the input has been typed into since.
handleSend(sanitized) ==
    /\ showToast' = TRUE
    /\ sendTimers' = Append(sendTimers, [scan |-> scanNo, typed |-> FALSE])
    /\ UNCHANGED <<inputText, isAnalyzing, result, view, call, activeEntities,
                   crashed, scanNo>>
    /\ UNCHANGED <<ruleVars, settingsVars>>

\* The callback of the timer: setShowToast(false), setView('LANDING'),
\* setInputText('').  Whatever view was on the screen unmounts.
resetAfterSend ==
    /\ sendTimers # <<>>
    /\ sendTimers' = Tail(sendTimers)
    /\ showToast' = FALSE
    /\ view' = "LANDING"
    /\ inputText' = <<>>
    /\ activeEntities' = IF view = "LANDING" THEN activeEntities ELSE {}
    /\ isModalOpen' = FALSE
    /\ editingId' = NoId
    /\ error' = NoError
    /\ fieldErrors' = {}
    /\ UNCHANGED <<isAnalyzing, result, call, crashed, scanNo, rules, now, ops>>
    /\ UNCHANGED settingsVars

\* handleSend followed by the callback of its timer, with nothing in
\* between: after 3000 ms the view is the landing page with an empty input.
\* AnalysisView unmounts and its active set goes with it.
sendAndWait(sanitized) ==
    /\ view' = "LANDING"
    /\ inputText' = <<>>
    /\ activeEntities' = {}
    /\ UNCHANGED <<isAnalyzing, result, call, crashed>>
    /\ UNCHANGED <<sendVars, ruleVars, settingsVars>>

\* The "Approve & Send" button: onSend(dynamicSanitizedText), and the three
\* seconds that follow.
approveAndSend ==
    /\ view = "ANALYSIS"
    /\ ~crashed
    /\ sendAndWait(dynamicSanitizedText(result, activeEntities))

Next ==
    \/ handleAnalyze
    \/ BackendResponds
    \/ AnalysisDone
    \/ toggleEntity
    \/ approveAndSend

Spec == Init /\ [][Next]_vars

\* The event loop runs a continuation whose promise has resolved; nothing
\* obliges the engine to answer.
FairSpec == Spec /\ WF_vars(AnalysisDone)

-----------------------------------------------------------------------------
(* ServiceSpec: analyzeText called as the exported function it is, with    *)
(* any text, engine and settings, and no App around it.                   *)

ServiceInit ==
    /\ inputText \in StringsUpTo(MaxLen)
    /\ isAnalyzing = FALSE
    /\ result = NoResult
    /\ view = "LANDING"
    /\ call = NoCall
    /\ activeEntities = {}
    /\ crashed = FALSE
    /\ RulesInit
    /\ SendInit
    /\ SettingsClosed

\* analyzeText(text, engine, cloudSettings, ollamaSettings) up to its await.
analyzeTextCalled ==
    /\ call = NoCall
    /\ result = NoResult
    /\ \E engine \in Engines, cloudKey \in {"", "AIza1"}, envKey \in {"", "AIza2"},
          url \in Urls, model \in {"", "m"} :
          call' = analyzeTextStart(inputText, engine, cloudKey, envKey, url, model)
    /\ UNCHANGED <<inputText, isAnalyzing, result, view, activeEntities, crashed>>
    /\ UNCHANGED <<sendVars, ruleVars, settingsVars>>

\* The promise of analyzeText resolves with value.
analyzeTextReturns(value) ==
    /\ result' = value
    /\ call' = NoCall
    /\ UNCHANGED <<inputText, isAnalyzing, view, activeEntities, crashed>>
    /\ UNCHANGED <<sendVars, ruleVars, settingsVars>>

analyzeTextAnswered ==
    /\ call.state = "inflight"
    /\ \E outcome \in Outcomes(call.engine) :
          analyzeTextReturns(analyzeTextResume(call.text, outcome))

analyzeTextThrewEarly ==
    /\ call.state = "resolved"
    /\ analyzeTextReturns(call.value)

ServiceNext ==
    \/ analyzeTextCalled
    \/ analyzeTextAnswered
    \/ analyzeTextThrewEarly

ServiceSpec == ServiceInit /\ [][ServiceNext]_vars

-----------------------------------------------------------------------------
(* LabelSpec: analyzeText answered with one entity whose type or           *)
(* sensitivity label is free text, as a language model writes it.          *)

MaxWords == 2

TypeWords ==
    {<<"c", "a", "r", "d">>, <<"k", "e", "y">>, <<"t", "o", "k", "e", "n">>,
     <<"e", "m", "a", "i", "l">>, <<"x">>}

LevelWords ==
    {<<"h", "i", "g", "h">>, <<"m", "e", "d", "i", "u", "m">>,
     <<"l", "o", "w">>, <<"r", "i", "s", "k">>}

\* A word as written in lower case, in capitals and with an initial capital.
cased(words) ==
    words \cup {toUpperCase(w) : w \in words}
          \cup {<<toUpperCase(w)[1]>> \o Tail(w) : w \in words}

RECURSIVE phrasesOf(_, _)
phrasesOf(words, k) ==
    IF k = 1 THEN words
    ELSE {p \o <<" ">> \o w : p \in phrasesOf(words, k - 1), w \in words}

\* The labels of up to MaxWords words, the empty label and the missing one.
Labels(words) ==
    {Undefined, <<>>} \cup UNION {phrasesOf(cased(words), k) : k \in 1..MaxWords}

LabelledEntities ==
    [text : {<<"a">>}, type : Labels(TypeWords),
     sensitivity : {<<"H", "I", "G", "H">>}, replacement : {Undefined}]
    \cup
    [text : {<<"a">>}, type : {<<"a">>},
     sensitivity : Labels(LevelWords), replacement : {Undefined}]

LabelledPayloads ==
    [entities : {<<e>> : e \in LabelledEntities}, riskScore : {50},
     summary : {<<"S">>}, classification : {"Doc"}]

LabelInit ==
    /\ inputText = <<"a">>
    /\ isAnalyzing = FALSE
    /\ result = NoResult
    /\ view = "LANDING"
    /\ call = NoCall
    /\ activeEntities = {}
    /\ crashed = FALSE
    /\ RulesInit
    /\ SendInit
    /\ SettingsClosed

\* The engine's answer arrives: the awaited promise resolves with it.
responseArrives ==
    /\ call.state = "inflight"
    /\ \E d \in LabelledPayloads :
          call' = [state |-> "answered", text |-> call.text, data |-> d]
    /\ UNCHANGED <<inputText, isAnalyzing, result, view, activeEntities, crashed>>
    /\ UNCHANGED <<sendVars, ruleVars, settingsVars>>

\* analyzeText continues with the parsed answer and returns.
responseParsed ==
    /\ call.state = "answered"
    /\ analyzeTextReturns(
           analyzeTextResume(call.text, [kind |-> "json", data |-> call.data]))

LabelNext ==
    \/ analyzeTextCalled
    \/ responseArrives
    \/ responseParsed
    \/ analyzeTextThrewEarly

LabelSpec == LabelInit /\ [][LabelNext]_vars

-----------------------------------------------------------------------------
(* RulesSpec: the rule list (App.tsx) and its editor (RulesConfig)         *)

\* new RegExp(p) throws on an unbalanced group.  Patterns are made of the
\* tokens "(", ")" and tokens that stand for well-formed expressions.
RECURSIVE groupDepth(_, _)
groupDepth(p, depth) ==
    IF depth < 0 THEN depth
    ELSE IF p = <<>> THEN depth
    ELSE groupDepth(Tail(p),
                    IF Head(p) = "(" THEN depth + 1
                    ELSE IF Head(p) = ")" THEN depth - 1
                    ELSE depth)

\* Mutant of newRegExpThrows: every pattern compiles.
newRegExpNeverThrows(p) == FALSE

newRegExpThrows(p) == groupDepth(p, 0) # 0

\* What the form can hold when Save is clicked.
FormNames == {<<>>, <<" ">>, <<"n">>}

FormPatterns == {<<>>, <<" ">>, <<"(">>, <<"a">>, <<"(", "a", ")">>}

FormDescriptions == {<<>>}

FormLevels == {"MEDIUM"}

ruleIds(rs) == {rs[i].id : i \in 1..Len(rs)}

\* Mutant of handleToggleRule: the switch only turns a rule on.
handleToggleRuleOn(rs, id) ==
    [i \in 1..Len(rs) |->
        IF rs[i].id = id THEN [rs[i] EXCEPT !.enabled = TRUE] ELSE rs[i]]

\* setRules(prev => prev.map(r => r.id === id ? {...r, enabled: !r.enabled} : r))
handleToggleRule(rs, id) ==
    [i \in 1..Len(rs) |->
        IF rs[i].id = id THEN [rs[i] EXCEPT !.enabled = ~rs[i].enabled] ELSE rs[i]]

\* Mutant of handleAddRule: the new rule is put first.
handleAddRuleFirst(rs, newRule) == <<newRule>> \o rs

\* setRules(prev => [...prev, newRule])
handleAddRule(rs, newRule) == Append(rs, newRule)

\* setRules(prev => prev.map(r => r.id === updatedRule.id ? updatedRule : r))
handleUpdateRule(rs, updatedRule) ==
    [i \in 1..Len(rs) |-> IF rs[i].id = updatedRule.id THEN updatedRule ELSE rs[i]]

\* setRules(prev => prev.filter(r => r.id !== id))
handleDeleteRule(rs, id) == SelectSeq(rs, LAMBDA r : r.id # id)

\* The name and pattern checks of handleSave.
nameRejected(name) == trim(name) = <<>>

\* Mutant of patternRejected: the pattern is never compiled.
patternRejectedNever(pattern) == FALSE

patternRejected(pattern) == trim(pattern) # <<>> /\ newRegExpThrows(pattern)

\* The rule handleSave builds for a new rule.
createdRule(name, description, pattern, level, t) ==
    [id |-> <<"custom", t>>,
     name |-> name,
     type |-> "CUSTOM",
     description |-> IF description = <<>> THEN <<"Custom detection rule">>
                     ELSE description,
     enabled |-> TRUE,
     level |-> level,
     pattern |-> pattern]

\* The rule handleSave builds from the rule being edited.
editedRule(originalRule, name, description, pattern, level) ==
    [originalRule EXCEPT !.name = name,
                         !.description = description,
                         !.level = level,
                         !.pattern = IF pattern = <<>> THEN Undefined ELSE pattern]

RulesConfigInit ==
    /\ view = "LANDING"
    /\ inputText = <<>>
    /\ isAnalyzing = FALSE
    /\ result = NoResult
    /\ call = NoCall
    /\ activeEntities = {}
    /\ crashed = FALSE
    /\ RulesInit
    /\ SendInit
    /\ SettingsClosed

\* The sidebar buttons, and onBack of AnalysisView.  Leaving the rules view
\* unmounts RulesConfig, leaving the analysis view unmounts AnalysisView.
setView(v) ==
    /\ view # v
    /\ view' = v
    /\ isModalOpen' = FALSE
    /\ editingId' = NoId
    /\ error' = NoError
    /\ fieldErrors' = {}
    /\ activeEntities' = {}
    /\ UNCHANGED <<rules, now, ops>>
    /\ UNCHANGED <<inputText, isAnalyzing, result, call, crashed>>
    /\ UNCHANGED <<sendVars, settingsVars>>

\* handleOpenModal(): New Rule
openNew ==
    /\ view = "RULES"
    /\ error' = NoError
    /\ fieldErrors' = {}
    /\ editingId' = NoId
    /\ isModalOpen' = TRUE
    /\ UNCHANGED <<rules, now, ops>>
    /\ UNCHANGED <<scanVars, settingsVars>>

\* handleOpenModal(rule): the edit button of a listed rule
openEdit ==
    /\ view = "RULES"
    /\ \E id \in ruleIds(rules) : editingId' = id
    /\ error' = NoError
    /\ fieldErrors' = {}
    /\ isModalOpen' = TRUE
    /\ UNCHANGED <<rules, now, ops>>
    /\ UNCHANGED <<scanVars, settingsVars>>

handleCloseModal ==
    /\ view = "RULES"
    /\ isModalOpen
    /\ isModalOpen' = FALSE
    /\ editingId' = NoId
    /\ UNCHANGED <<rules, error, fieldErrors, now, ops>>
    /\ UNCHANGED <<scanVars, settingsVars>>

\* handleSave with the form holding (name, description, pattern, level),
\* including the onAdd / onUpdate call and handleCloseModal.
handleSave(name, description, pattern, level) ==
    /\ view = "RULES"
    /\ isModalOpen
    /\ error' = IF patternRejected(pattern) THEN "Invalid Regular Expression format."
                ELSE IF nameRejected(name) THEN "Rule name is required."
                ELSE NoError
    /\ fieldErrors' = (IF nameRejected(name) THEN {"name"} ELSE {})
                      \cup (IF patternRejected(pattern) THEN {"pattern"} ELSE {})
    /\ IF nameRejected(name) \/ patternRejected(pattern)
       THEN UNCHANGED <<rules, isModalOpen, editingId, now, ops>>
       ELSE /\ isModalOpen' = FALSE
            /\ editingId' = NoId
            /\ IF editingId # NoId
               THEN IF editingId \in ruleIds(rules)
                    THEN /\ ops < MaxOps
                         /\ LET originalRule ==
                                    rules[CHOOSE i \in 1..Len(rules) :
                                              rules[i].id = editingId]
                            IN  rules' = handleUpdateRule(rules,
                                    editedRule(originalRule, name, description,
                                               pattern, level))
                         /\ ops' = ops + 1
                         /\ UNCHANGED now
                    ELSE UNCHANGED <<rules, now, ops>>
               ELSE /\ ops < MaxOps
                    /\ rules' = handleAddRule(rules,
                           createdRule(name, description, pattern, level, now + 1))
                    /\ now' = now + 1
                    /\ ops' = ops + 1
    /\ UNCHANGED <<scanVars, settingsVars>>

save ==
    \E name \in FormNames, description \in FormDescriptions,
       pattern \in FormPatterns, level \in FormLevels :
        handleSave(name, description, pattern, level)

\* The switch of a listed rule.
toggleRule ==
    /\ view = "RULES"
    /\ ops < MaxOps
    /\ \E id \in ruleIds(rules) : rules' = handleToggleRule(rules, id)
    /\ ops' = ops + 1
    /\ UNCHANGED <<isModalOpen, editingId, error, fieldErrors, now>>
    /\ UNCHANGED <<scanVars, settingsVars>>

\* handleDelete of a listed rule, confirmed.
deleteRule ==
    /\ view = "RULES"
    /\ ops < MaxOps
    /\ \E id \in ruleIds(rules) : rules' = handleDeleteRule(rules, id)
    /\ ops' = ops + 1
    /\ UNCHANGED <<isModalOpen, editingId, error, fieldErrors, now>>
    /\ UNCHANGED <<scanVars, settingsVars>>

RulesNext ==
    \/ setView("RULES")
    \/ setView("LANDING")
    \/ openNew
    \/ openEdit
    \/ handleCloseModal
    \/ save
    \/ toggleRule
    \/ deleteRule

RulesSpec == RulesConfigInit /\ [][RulesNext]_vars

-----------------------------------------------------------------------------
(* AppSpec: App over several scans.  The user types, scans, reviews,       *)
(* sends and navigates while scans and the timers of handleSend are        *)
(* pending.                                                                *)

MaxScans == 2
MaxTimers == 1

\* What the user types or uploads.
AppTexts == {<<>>} \cup {<<c>> : c \in Alphabet}

\* The engine fails, or finds nothing, one entity or two.
AppOutcomes ==
    {[kind |-> "rejected"]} \cup
    {[kind |-> "json",
      data |-> [entities |-> [i \in 1..k |->
                                 [text |-> IF i = 1 THEN <<"a">> ELSE <<"b">>,
                                  type |-> <<"a">>,
                                  sensitivity |-> <<"H", "I", "G", "H">>,
                                  replacement |-> Undefined]],
                riskScore |-> 50, summary |-> <<"S">>,
                classification |-> "Doc"]] : k \in 0..2}

AppInit ==
    /\ view = "LANDING"
    /\ inputText = <<>>
    /\ isAnalyzing = FALSE
    /\ result = NoResult
    /\ call = NoCall
    /\ activeEntities = {}
    /\ crashed = FALSE
    /\ RulesInit
    /\ SendInit
    /\ SettingsClosed

\* The textarea's onChange and handleFileUpload: setInputText.
setInputText ==
    /\ view = "LANDING"
    /\ ~crashed
    /\ \E text \in AppTexts : text # inputText /\ inputText' = text
    /\ sendTimers' = [k \in 1..Len(sendTimers) |->
                         [sendTimers[k] EXCEPT !.typed = TRUE]]
    /\ UNCHANGED <<isAnalyzing, result, view, call, activeEntities, crashed,
                   showToast, scanNo>>
    /\ UNCHANGED <<ruleVars, settingsVars>>

\* The scan button.
scanClicked ==
    /\ scanNo < MaxScans
    /\ handleAnalyze

\* The engine answers the request in flight.
engineAnswers ==
    /\ call.state = "inflight"
    /\ \E outcome \in AppOutcomes :
          finishAnalyze(analyzeTextResume(call.text, outcome))

\* The "Approve & Send" button.
sendClicked ==
    /\ view = "ANALYSIS"
    /\ ~crashed
    /\ Len(sendTimers) < MaxTimers
    /\ handleSend(dynamicSanitizedText(result, activeEntities))

AppNext ==
    \/ setInputText
    \/ scanClicked
    \/ engineAnswers
    \/ AnalysisDone
    \/ toggleEntity
    \/ sendClicked
    \/ resetAfterSend
    \/ setView("LANDING")
    \/ setView("RULES")

AppSpec == AppInit /\ [][AppNext]_vars

-----------------------------------------------------------------------------
(* SettingsSpec: SettingsView mounted with the properties it declares, the *)
(* user editing the local engine settings and discovering models.          *)

MaxModels == 2

ModelNames == {"m1", "m2"}

ApiKeys == {"", "k"}

\* The models arrays an Ollama instance can list.
ModelLists == UNION {[1..k -> ModelNames] : k \in 0..MaxModels}

\* How GET /api/tags can end: the request is rejected, the status is not a
\* success, the body has no models array, or it has one.
DiscoveryOutcomes ==
    {[kind |-> "rejected"], [kind |-> "http_error"], [kind |-> "no_models"]}
    \cup {[kind |-> "models", models |-> list] : list \in ModelLists}

\* The effect that validates localOllamaSettings.url.
urlErrorOf(url) ==
    IF url = <<>> THEN "URL is required"
    ELSE IF newURLThrows(url) THEN "Invalid URL format"
    ELSE NoError

SettingsInit ==
    /\ view = "SETTINGS"
    /\ inputText = <<>>
    /\ isAnalyzing = FALSE
    /\ result = NoResult
    /\ call = NoCall
    /\ activeEntities = {}
    /\ crashed = FALSE
    /\ RulesInit
    /\ SendInit
    /\ ollamaSettings \in [url : Urls, model : {""} \cup ModelNames, apiKey : ApiKeys]
    /\ localOllamaSettings = ollamaSettings
    /\ models = <<>>
    /\ isFetchingModels = FALSE
    /\ urlError = urlErrorOf(ollamaSettings.url)
    /\ fetchSuccess = FALSE
    /\ discovery = NoDiscovery

\* handleChangeOllama(field, value) of the render whose localOllamaSettings
\* was closure, with the effects that follow the state change: the parent
\* is given the new settings and the URL is validated.
handleChangeOllama(closure, field, value) ==
    /\ localOllamaSettings' = [closure EXCEPT ![field] = value]
    /\ fetchSuccess' = FALSE
    /\ ollamaSettings' = localOllamaSettings'
    /\ urlError' = urlErrorOf(localOllamaSettings'.url)

\* The user edits the URL or the key, or selects one of the listed models.
editOllama ==
    /\ \/ \E url \in Urls : handleChangeOllama(localOllamaSettings, "url", url)
       \/ \E key \in ApiKeys :
             handleChangeOllama(localOllamaSettings, "apiKey", key)
       \/ \E k \in 1..Len(models) :
             handleChangeOllama(localOllamaSettings, "model", models[k])
    /\ UNCHANGED <<models, isFetchingModels, discovery>>
    /\ UNCHANGED <<scanVars, ruleVars>>

\* fetchModels up to its first await; the button is disabled while the URL
\* is in error and while a discovery runs.
fetchModels ==
    /\ urlError = NoError
    /\ ~isFetchingModels
    /\ isFetchingModels' = TRUE
    /\ fetchSuccess' = FALSE
    /\ discovery' = [state |-> "inflight",
                     closure |-> localOllamaSettings,
                     endpoint |-> stripTrailingSlash(localOllamaSettings.url)
                                      \o <<"/api/tags">>]
    /\ UNCHANGED <<localOllamaSettings, ollamaSettings, models, urlError>>
    /\ UNCHANGED <<scanVars, ruleVars>>

\* The instance answers, or the request fails.
discoveryAnswered ==
    /\ discovery.state = "inflight"
    /\ \E outcome \in DiscoveryOutcomes :
          discovery' = [state |-> "answered", closure |-> discovery.closure,
                        outcome |-> outcome]
    /\ UNCHANGED <<localOllamaSettings, ollamaSettings, models, isFetchingModels,
                   urlError, fetchSuccess>>
    /\ UNCHANGED <<scanVars, ruleVars>>

\* fetchModels from the answer to its end: the try block, the catch block
\* and the finally block.
fetchModelsResume ==
    /\ discovery.state = "answered"
    /\ IF discovery.outcome.kind = "models"
       THEN /\ models' = discovery.outcome.models
            /\ IF discovery.closure.model = "" /\ Len(discovery.outcome.models) > 0
               THEN handleChangeOllama(discovery.closure, "model",
                                       discovery.outcome.models[1])
               ELSE /\ fetchSuccess' = TRUE
                    /\ UNCHANGED <<localOllamaSettings, ollamaSettings, urlError>>
       ELSE UNCHANGED <<models, fetchSuccess, localOllamaSettings,
                        ollamaSettings, urlError>>
    /\ isFetchingModels' = FALSE
    /\ discovery' = NoDiscovery
    /\ UNCHANGED <<scanVars, ruleVars>>

SettingsNext ==
    \/ editOllama
    \/ fetchModels
    \/ discoveryAnswered
    \/ fetchModelsResume

SettingsSpec == SettingsInit /\ [][SettingsNext]_vars

-----------------------------------------------------------------------------
(* The Pattern Matcher of the specification (section 4.2).  No source file  *)
(* implements it: handleAnalyze hands no rule to analyzeText.              *)

\* A pattern of alphabet characters and groups matches its literal; a seeded
\* pattern needs characters the alphabet does not have and matches nothing.
patternLiteral(pattern) == SelectSeq(pattern, LAMBDA c : c \notin {"(", ")"})

ruleParticipates(r) ==
    /\ r.enabled
    /\ r.pattern # Undefined
    /\ r.pattern # <<>>
    /\ ~newRegExpThrows(r.pattern)
    /\ patternLiteral(r.pattern) # <<>>
    /\ \A i \in 1..Len(patternLiteral(r.pattern)) :
           patternLiteral(r.pattern)[i] \in Alphabet

\* All non-overlapping matches of one rule, leftmost first.
ruleHits(text, r) ==
    IF ruleParticipates(r)
    THEN [k \in 1..(Len(splitAt(text, patternLiteral(r.pattern))) - 1) |->
             [text |-> patternLiteral(r.pattern), type |-> r.type, level |-> r.level]]
    ELSE <<>>

RECURSIVE patternMatcher(_, _)
patternMatcher(text, rs) ==
    IF rs = <<>> THEN <<>>
    ELSE ruleHits(text, Head(rs)) \o patternMatcher(text, Tail(rs))

-----------------------------------------------------------------------------
(* Claims                                                                  *)

reviewing == view = "ANALYSIS" /\ ~crashed

textsOf(seq) == [i \in 1..Len(seq) |-> seq[i].text]

\* C1: the payload handed to onSend contains no occurrence of the matched
\* text of an entity that is in the active set.
C1_PayloadFreeOfActiveTexts ==
    [][ approveAndSend =>
            \A i \in 1..Len(result.entities) :
                LET e == result.entities[i]
                IN  (e.id \in activeEntities /\ e.text # Undefined /\ e.text # <<>>)
                    => ~includes(dynamicSanitizedText(result, activeEntities),
                                 e.text) ]_vars

\* The original text with the single occurrence of e.text replaced.
onceReplaced(text, e) ==
    LET p == CHOOSE q \in Occurrences(text, e.text) : TRUE
    IN  SubSeq(text, 1, p - 1) \o e.replacement \o
        SubSeq(text, p + Len(e.text), Len(text))

\* C2: when the only active entity has a text that occurs exactly once in
\* the original text, the sanitized text is the original text with that one
\* occurrence replaced by the entity's replacement and nothing else changed,
\* whatever the inactive entities are.
C2_SingleOccurrenceReplaced ==
    reviewing =>
        \A i \in 1..Len(result.entities) :
            LET e == result.entities[i]
            IN  (activeEntities = {e.id}
                 /\ Cardinality(Occurrences(result.originalText, e.text)) = 1)
                => dynamicSanitizedText(result, activeEntities)
                       = onceReplaced(result.originalText, e)

\* A review where one entity alone is active, its text occurs once, and an
\* inactive entity's text occurs in the original text as well.
C2_Witness ==
    /\ reviewing
    /\ \E i, j \in 1..Len(result.entities) :
          /\ i # j
          /\ activeEntities = {result.entities[i].id}
          /\ Cardinality(Occurrences(result.originalText,
                                     result.entities[i].text)) = 1
          /\ result.entities[j].text # <<>>
          /\ result.entities[j].text # result.entities[i].text
          /\ includes(result.originalText, result.entities[j].text)
          /\ dynamicSanitizedText(result, activeEntities) # result.originalText

\* The longer text replaced as a whole, the shorter one replaced only in
\* what lies between the occurrences of the longer one.
nestedExpected(text, long, short) ==
    LET pieces == split(text, long.text)
    IN  join([k \in 1..Len(pieces) |->
                 join(split(pieces[k], short.text), short.replacement)],
             long.replacement)

\* C3: with two active entities, one's text a substring of the other's,
\* every occurrence of the longer text is replaced as a whole by the longer
\* entity's replacement and the shorter entity's substitution rewrites
\* neither it nor the replacement put in its place.
C3_LongerMatchIntact ==
    reviewing =>
        \A i, j \in 1..Len(result.entities) :
            LET long == result.entities[i]
                short == result.entities[j]
            IN  (/\ long.text # Undefined
                 /\ short.text # Undefined
                 /\ short.text # <<>>
                 /\ Len(short.text) < Len(long.text)
                 /\ includes(long.text, short.text)
                 /\ includes(result.originalText, long.text)
                 /\ activeEntities = {long.id, short.id})
                => dynamicSanitizedText(result, activeEntities)
                       = nestedExpected(result.originalText, long, short)

\* The adapter failures: a rejected call, a non-success status, a response
\* that is not JSON, a null payload, and a payload with an entity that has
\* no text.
adapterFailed(outcome) ==
    \/ outcome.kind \in {"rejected", "http_error", "bad_json", "json_null"}
    \/ /\ outcome.kind = "json"
       /\ \E i \in 1..Len(outcome.data.entities) :
              outcome.data.entities[i].text = Undefined

degraded(res, text) ==
    /\ res.originalText = text
    /\ res.sanitizedText = text
    /\ res.riskScore = 0
    /\ res.classification = "Error"
    /\ res.summary[1] = "Analysis failed: "

\* C5: whatever way the adapter fails, the scan ends in a result with
\* classification "Error", riskScore 0, a summary of the failure and the
\* original text as sanitizedText.
C5_FailureGivesErrorResult ==
    [][ /\ (call.state = "resolved" /\ call'.state = "none")
               => degraded(result', inputText)
        /\ call.state = "inflight" =>
               \A outcome \in Outcomes(call.engine) :
                   (adapterFailed(outcome)
                    /\ result' = analyzeTextResume(call.text, outcome))
                   => degraded(result', call.text) ]_vars

\* C6: the entity list of a degraded result equals the Pattern Matcher's
\* hits for the enabled rules on the scanned text.
C6_DegradedKeepsPatternHits ==
    (view = "ANALYSIS" /\ result.classification = "Error")
        => textsOf(result.entities)
               = textsOf(patternMatcher(result.originalText, rules))

\* C7: every started scan completes: isAnalyzing returns to false even when
\* the engine never answers.
C7_ScanCompletes == isAnalyzing ~> ~isAnalyzing

\* C8: the sanitizedText of a successful scan equals the sanitized text
\* AnalysisView renders with every entity active.
C8_SanitizedTextIsRenderOfAll ==
    (/\ reviewing
     /\ result.classification # "Error"
     /\ \A i \in 1..Len(result.entities) : result.entities[i].text # <<>>)
        => result.sanitizedText = dynamicSanitizedText(result, entityIds(result))

blank(str) == \A i \in 1..Len(str) : str[i] = " "

\* C9: saving a new rule with a blank name, or with a non-empty pattern that
\* is no regular expression, reports an error and leaves the rule list as it
\* was; saving one with a name and a well-formed pattern appends exactly
\* that rule.
C9_AddValidates ==
    [][ \A name \in FormNames, description \in FormDescriptions,
           pattern \in FormPatterns, level \in FormLevels :
            (editingId = NoId /\ handleSave(name, description, pattern, level))
            => IF blank(name) \/ (pattern # <<>> /\ newRegExpThrows(pattern))
               THEN rules' = rules /\ error' # NoError /\ isModalOpen'
               ELSE /\ Len(rules') = Len(rules) + 1
                    /\ SubSeq(rules', 1, Len(rules)) = rules
                    /\ rules'[Len(rules')].name = name
                    /\ rules'[Len(rules')].pattern = pattern
                    /\ rules'[Len(rules')].level = level
                    /\ rules'[Len(rules')].type = "CUSTOM"
                    /\ rules'[Len(rules')].enabled
                    /\ rules'[Len(rules')].id \notin ruleIds(rules)
                    /\ error' = NoError ]_vars

\* A rule was added, and a later attempt to add a rule with an unbalanced
\* pattern is rejected in the open editor.
C9_Witness ==
    /\ \E i \in 1..Len(rules) : rules[i].type = "CUSTOM"
    /\ Len(rules) = Len(DefaultRules) + 1
    /\ isModalOpen
    /\ editingId = NoId
    /\ error = "Invalid Regular Expression format."

\* C10: saving an edit of a rule whose id is no longer in the list fails
\* with an error.
C10_UpdateOfAbsentIdFails ==
    [][ \A name \in FormNames, description \in FormDescriptions,
           pattern \in FormPatterns, level \in FormLevels :
            (/\ editingId # NoId
             /\ editingId \notin ruleIds(rules)
             /\ ~blank(name)
             /\ ~newRegExpThrows(pattern)
             /\ handleSave(name, description, pattern, level))
            => error' # NoError ]_vars

\* C11: whatever was added, updated, toggled and removed, every stored rule
\* with a non-empty pattern has a pattern that compiles.
C11_StoredPatternsCompile ==
    \A i \in 1..Len(rules) :
        (rules[i].pattern # Undefined /\ rules[i].pattern # <<>>)
            => groupDepth(rules[i].pattern, 0) = 0

\* A rule was added with a grouped pattern and a seeded rule was given a new
\* pattern through the editor.
C11_Witness ==
    /\ \E i \in 1..Len(rules) :
          rules[i].type = "CUSTOM" /\ rules[i].pattern = <<"(", "a", ")">>
    /\ \E i \in 1..Len(rules) :
          rules[i].type # "CUSTOM" /\ rules[i].pattern = <<"a">>

\* Ids a caller could name: the seeded ones and those of created rules.
KnownRuleIds ==
    ruleIds(DefaultRules) \cup {<<"custom", t>> : t \in 1..(MaxOps + 1)}

\* C12: the switch of a rule flips its enabled flag and leaves every other
\* field, every other rule, the length and the order of the list as they
\* were; toggling an id that is not in the list leaves the list unchanged.
C12_ToggleFlipsOnlyEnabled ==
    [][ /\ \A id \in KnownRuleIds \ ruleIds(rules) :
               handleToggleRule(rules, id) = rules
        /\ toggleRule =>
               \E i \in 1..Len(rules) :
                   /\ Len(rules') = Len(rules)
                   /\ rules'[i] = [rules[i] EXCEPT !.enabled = ~rules[i].enabled]
                   /\ \A j \in 1..Len(rules) : j # i => rules'[j] = rules[j]
                   /\ UNCHANGED <<isModalOpen, editingId, error, fieldErrors>> ]_vars

\* The seeded rule that starts disabled has been switched on, in a list
\* from which another rule is gone.
C12_Witness ==
    /\ <<"1">> \notin ruleIds(rules)
    /\ \E i \in 1..Len(rules) : rules[i].id = <<"5">> /\ rules[i].enabled

idsOf(rs) == [i \in 1..Len(rs) |-> rs[i].id]

without(seq, k) == SubSeq(seq, 1, k - 1) \o SubSeq(seq, k + 1, Len(seq))

\* When a rule entered the list: the seeded rules in the order of the
\* seed, then the created ones by the clock reading in their id.
insertionRank(id) ==
    IF id[1] = "custom" THEN Len(DefaultRules) + id[2]
    ELSE CHOOSE k \in 1..Len(DefaultRules) : DefaultRules[k].id = id

positionOf(rs, id) == CHOOSE k \in 1..Len(rs) : rs[k].id = id

\* C13: the list stays in insertion order: a new rule goes to the end, an
\* edit and a switch keep every rule at its place, and a removal takes out
\* the named rule and keeps the others in their order.
C13_InsertionOrderKept ==
    /\ \A i, j \in 1..Len(rules) :
           i < j => insertionRank(rules[i].id) < insertionRank(rules[j].id)
    /\ \A id \in ruleIds(rules) :
           /\ idsOf(handleToggleRule(rules, id)) = idsOf(rules)
           /\ idsOf(handleUpdateRule(rules,
                  editedRule(rules[positionOf(rules, id)],
                             <<"n">>, <<>>, <<"a">>, "MEDIUM"))) = idsOf(rules)
           /\ handleDeleteRule(rules, id) = without(rules, positionOf(rules, id))
    /\ LET rule == createdRule(<<"n">>, <<>>, <<"a">>, "MEDIUM", now + 1)
       IN  /\ Len(handleAddRule(rules, rule)) = Len(rules) + 1
           /\ SubSeq(handleAddRule(rules, rule), 1, Len(rules)) = rules
           /\ handleAddRule(rules, rule)[Len(rules) + 1] = rule

\* A rule was removed from the middle of the list and a new one added.
C13_Witness ==
    idsOf(rules) = << <<"1">>, <<"2">>, <<"4">>, <<"5">>, <<"custom", 1>> >>

\* C14: analyzeText checks that the text is not empty before it calls an
\* engine: no request is in flight for an empty text.
C14_NoRequestForEmptyText ==
    call.state = "inflight" => call.text # <<>>

\* Index (from 0) of the first occurrence of sub in text.
indexOf(text, sub) == Min(Occurrences(text, sub)) - 1

\* C15: an entity whose text occurs in the original text carries the
\* offsets of its first occurrence: start is its index, start <= end <=
\* length, and the text is originalText[start:end].
C15_OffsetsResolved ==
    view = "ANALYSIS" =>
        \A i \in 1..Len(result.entities) :
            LET e == result.entities[i]
            IN  (e.text # Undefined /\ e.text # <<>>
                 /\ includes(result.originalText, e.text))
                => /\ e.start = indexOf(result.originalText, e.text)
                   /\ e.start <= e.end
                   /\ e.end <= Len(result.originalText)
                   /\ e.text = SubSeq(result.originalText, e.start + 1, e.end)

\* C16: no two entities of a result have the same text.
C16_EntitiesDeduplicated ==
    view = "ANALYSIS" =>
        \A i, j \in 1..Len(result.entities) :
            (i # j /\ result.entities[i].text \notin {Undefined, <<>>})
                => result.entities[i].text # result.entities[j].text

\* C17: the cloud engine is called with the per-call key when there is one,
\* with the process-wide key otherwise, and is not called at all when there
\* is neither: the call then ends in the error result.
C17_KeyResolution ==
    [][ \A cloudKey \in {"", "AIza1"}, envKey \in {"", "AIza2"},
           url \in Urls, model \in {"", "m"} :
            (/\ call = NoCall
             /\ call' # NoCall
             /\ call' = analyzeTextStart(inputText, "GEMINI", cloudKey, envKey,
                                         url, model))
            => IF cloudKey # ""
               THEN call'.state = "inflight" /\ call'.apiKey = cloudKey
               ELSE IF envKey # ""
               THEN call'.state = "inflight" /\ call'.apiKey = envKey
               ELSE /\ call'.state = "resolved"
                    /\ call'.value.classification = "Error"
                    /\ call'.value.summary
                           = <<"Analysis failed: ", "No Gemini API Key provided">>
      ]_vars

\* The cloud engine is being called with the process-wide key.
C17_Witness ==
    /\ isAnalyzing
    /\ call.state = "inflight"
    /\ call.engine = "GEMINI"
    /\ call.apiKey = "AIza2"

\* C18: no request goes to the local engine while its configured URL is
\* not a well-formed absolute URL.
C18_NoRequestToMalformedUrl ==
    (call.state = "inflight" /\ call.engine = "OLLAMA")
        => ~newURLThrows(call.endpoint)

\* C19: a click on an entity changes the membership of that one id in the
\* active set and nothing else; a second click on it restores the set.
C19_ToggleChangesOneMembership ==
    [][ toggleEntity =>
            /\ result' = result
            /\ inputText' = inputText
            /\ \E id \in entityIds(result) :
                  /\ (id \in activeEntities') # (id \in activeEntities)
                  /\ activeEntities' \ {id} = activeEntities \ {id}
                  /\ toggled(activeEntities', id) = activeEntities ]_vars

\* Of two entities one has been switched off.
C19_Witness ==
    /\ reviewing
    /\ Len(result.entities) = 2
    /\ Cardinality(activeEntities) = 1

\* C20: the riskScore of a result is an integer from 0 to 100, whatever
\* number the engine returned.
C20_RiskScoreInRange ==
    view = "ANALYSIS" => result.riskScore \in 0..100

\* The segments of the highlight view in the review at hand.
segments == renderHighlightedText(result, activeEntities)

\* C24: in the highlight view every entity whose (non-empty) text occurs in
\* the original text has at least one segment carrying its own id and its
\* own active or inactive status, also when another entity has the same text
\* or a text that contains it or is contained in it.
C24_EveryEntityHasSegment ==
    reviewing =>
        \A i \in 1..Len(result.entities) :
            LET e == result.entities[i]
            IN  (e.text \notin {Undefined, <<>>}
                 /\ includes(result.originalText, e.text))
                => \E k \in 1..Len(segments) :
                       /\ segments[k].id = e.id
                       /\ segments[k].active = (e.id \in activeEntities)

\* The entity a tagged segment belongs to.
entityOf(id) ==
    result.entities[CHOOSE i \in 1..Len(result.entities) :
                        result.entities[i].id = id]

\* The output the highlight view announces: each segment shown active gives
\* way to its entity's replacement, every other segment stays as it is.
announcedOutput ==
    join([k \in 1..Len(segments) |->
             IF segments[k].id # NoEntity /\ segments[k].active
             THEN entityOf(segments[k].id).replacement
             ELSE segments[k].text],
         <<>>)

\* C26: the highlight view and the output preview agree: when every entity
\* has a text, a segment shown inactive is unchanged in the output and a
\* segment shown active is replaced by its entity's replacement, also when
\* entities share a text or one text is a substring of another.
C26_HighlightAgreesWithPreview ==
    (reviewing /\ \A i \in 1..Len(result.entities) :
                      result.entities[i].text \notin {Undefined, <<>>})
        => dynamicSanitizedText(result, activeEntities) = announcedOutput

\* The entities of the review that are switched on, longest text first.
activeByLen ==
    SelectSeq(sortedByLen(result.entities), LAMBDA e : e.id \in activeEntities)

\* C27: with an empty active set the output is the original text, and in
\* every review the output is what the substitutions of the active entities
\* alone produce: the substitution of an inactive entity is never applied.
C27_InactiveNeverApplied ==
    reviewing =>
        /\ dynamicSanitizedText(result, {}) = result.originalText
        /\ dynamicSanitizedText(result, activeEntities)
               = sanitizeInOrder(result.originalText, activeByLen)

\* A review with one entity switched off and another switched on, the texts
\* of both in the original text, and an output that differs from it.
C27_Witness ==
    /\ reviewing
    /\ \E i, j \in 1..Len(result.entities) :
          /\ result.entities[i].id \notin activeEntities
          /\ result.entities[j].id \in activeEntities
          /\ result.entities[i].text # <<>>
          /\ result.entities[j].text # <<>>
          /\ includes(result.originalText, result.entities[i].text)
          /\ includes(result.originalText, result.entities[j].text)
    /\ dynamicSanitizedText(result, activeEntities) # result.originalText

\* c and d are the same letter, whatever their case.
sameLetter(c, d) ==
    c = d \/ \E k \in 1..26 : {c, d} = {LowerCase[k], UpperCase[k]}

\* word occurs in label when the case of the letters is ignored.
containsWord(label, word) ==
    /\ label # Undefined
    /\ \E i \in 1..(Len(label) - Len(word) + 1) :
          \A j \in 1..Len(word) : sameLetter(label[i + j - 1], word[j])

\* The keywords of the type labels in the order in which they are looked
\* for, each group with the type it stands for.
TypeKeywords ==
    << [words |-> {<<"E", "M", "A", "I", "L">>}, type |-> "EMAIL"],
       [words |-> {<<"P", "H", "O", "N", "E">>}, type |-> "PHONE"],
       [words |-> {<<"C", "A", "R", "D">>}, type |-> "CREDIT_CARD"],
       [words |-> {<<"S", "S", "N">>}, type |-> "SSN"],
       [words |-> {<<"K", "E", "Y">>, <<"T", "O", "K", "E", "N">>},
        type |-> "API_KEY"],
       [words |-> {<<"I", "P">>}, type |-> "IP_ADDRESS"],
       [words |-> {<<"N", "A", "M", "E">>, <<"P", "E", "R", "S", "O", "N">>},
        type |-> "NAME"],
       [words |-> {<<"L", "O", "C">>, <<"A", "D", "D", "R", "E", "S", "S">>},
        type |-> "LOCATION"] >>

PiiTypes == {TypeKeywords[k].type : k \in 1..Len(TypeKeywords)} \cup {"CUSTOM"}

\* The groups of keywords a label contains.
groupsIn(label) ==
    {k \in 1..Len(TypeKeywords) :
        \E w \in TypeKeywords[k].words : containsWord(label, w)}

\* The step in which analyzeText turns the answer in hand into its result.
normalised == call.state = "answered" /\ call'.state = "none"

\* C22 (amended): every type label is mapped into the closed set of types
\* by case-insensitive substring matching, and of the keywords a label
\* contains the one that comes first in the order EMAIL, PHONE, CARD, SSN,
\* KEY or TOKEN, IP, NAME or PERSON, LOC or ADDRESS decides; a label with no
\* keyword, an empty label and a missing label give CUSTOM.
C22_FirstKeywordDecides ==
    [][ normalised =>
            LET label == call.data.entities[1].type
                type == result'.entities[1].type
            IN  /\ type \in PiiTypes
                /\ type = IF groupsIn(label) = {} THEN "CUSTOM"
                          ELSE TypeKeywords[Min(groupsIn(label))].type ]_vars

\* C22 as stated: any label containing CARD gives CREDIT_CARD, any label
\* containing KEY or TOKEN gives API_KEY, a label without keyword gives
\* CUSTOM.
C22_AnyKeywordDecides ==
    [][ normalised =>
            LET label == call.data.entities[1].type
                type == result'.entities[1].type
            IN  /\ type \in PiiTypes
                /\ containsWord(label, <<"C", "A", "R", "D">>)
                       => type = "CREDIT_CARD"
                /\ (containsWord(label, <<"K", "E", "Y">>)
                    \/ containsWord(label, <<"T", "O", "K", "E", "N">>))
                       => type = "API_KEY"
                /\ groupsIn(label) = {} => type = "CUSTOM" ]_vars

\* A result whose entity had a type label in mixed case with two keywords
\* of different types, the later one first in the label: "Key card".
C22_Witness ==
    /\ result # NoResult
    /\ Len(result.entities) = 1
    /\ result.entities[1].replacement
           = defaultReplacement(<<"K", "e", "y", " ", "c", "a", "r", "d">>)
    /\ result.entities[1].type = "CREDIT_CARD"

\* C23: the sensitivity label is matched as a case-insensitive substring: a
\* label containing HIGH gives HIGH, a label containing MEDIUM gives MEDIUM,
\* and LOW is the result only when the label names LOW or there is none.
C23_SensitivityBySubstring ==
    [][ normalised =>
            LET label == call.data.entities[1].sensitivity
                level == result'.entities[1].level
            IN  /\ (containsWord(label, <<"H", "I", "G", "H">>)
                    /\ ~containsWord(label, <<"M", "E", "D", "I", "U", "M">>))
                       => level = "HIGH"
                /\ (containsWord(label, <<"M", "E", "D", "I", "U", "M">>)
                    /\ ~containsWord(label, <<"H", "I", "G", "H">>))
                       => level = "MEDIUM"
                /\ level = "LOW"
                       => \/ falsy(label)
                          \/ containsWord(label, <<"L", "O", "W">>) ]_vars

\* An analyzeText call starts in this step.
callStarts == call' # call /\ call'.state \in {"inflight", "resolved"}

\* C21: at most one scan is in flight: whatever the user does, an
\* analyzeText call starts only when no scan is waiting to set its result.
C21_OneScanInFlight ==
    [][ callStarts => (call = NoCall /\ ~isAnalyzing) ]_vars

\* A second scan is in flight, the first result still on record, and the
\* user is on the landing page with another text typed in: the scan button
\* would start a second call if it were enabled.
C21_Witness ==
    /\ scanNo >= 1
    /\ isAnalyzing
    /\ call.state = "inflight"
    /\ view = "LANDING"
    /\ trim(inputText) # <<>>
    /\ inputText # call.text

\* A result comes onto the screen in this step.
displayed == view' = "ANALYSIS" /\ ~crashed' /\ (view # "ANALYSIS" \/ result' # result)

\* C25: in every state the active set holds ids of the entities of the
\* result on the screen only, and each time a result comes onto the screen
\* the active set is the full set of its ids.
C25_ActiveWithinResult ==
    [][ /\ (view' = "ANALYSIS" /\ ~crashed')
            => activeEntities' \subseteq entityIds(result')
        /\ displayed => activeEntities' = entityIds(result') ]_vars

\* The second result is on the screen, with two entities, and one of them
\* has been switched off since it came onto the screen.
C25_Witness ==
    /\ scanNo >= 2
    /\ reviewing
    /\ Len(result.entities) = 2
    /\ activeEntities # entityIds(result)

\* C28: the reset that follows Approve & Send after 3 s touches the scan
\* that was sent only: it does not clear an input typed after the send and
\* it does not take away the analysis view of a scan that was started after
\* the send and completed before the timer fired.
C28_ResetOnlySentScan ==
    [][ resetAfterSend =>
            /\ Head(sendTimers).typed => inputText' = inputText
            /\ (view = "ANALYSIS" /\ scanNo > Head(sendTimers).scan)
                   => view' = "ANALYSIS" ]_vars

\* The step in which fetchModels runs from the answer to its end.
discoveryCompletes == discovery.state = "answered" /\ discovery'.state = "none"

\* C29: when a discovery completes with a success status and a models
\* array, fetchSuccess is true and the array is the stored list, also when
\* a model is selected automatically; isFetchingModels is false after every
\* completion.
C29_SuccessRecorded ==
    [][ discoveryCompletes =>
            /\ ~isFetchingModels'
            /\ discovery.outcome.kind = "models"
                   => (fetchSuccess' /\ models' = discovery.outcome.models) ]_vars

\* C30: what the user has put into the local engine settings while a
\* discovery was in flight is still there when the discovery completes, in
\* SettingsView and in the parent, also when a model is selected
\* automatically.
C30_EditsSurviveDiscovery ==
    [][ discoveryCompletes =>
            /\ localOllamaSettings'.url = localOllamaSettings.url
            /\ localOllamaSettings'.apiKey = localOllamaSettings.apiKey
            /\ ollamaSettings'.url = ollamaSettings.url
            /\ ollamaSettings'.apiKey = ollamaSettings.apiKey
            /\ localOllamaSettings.model # ""
                   => localOllamaSettings'.model = localOllamaSettings.model ]_vars

=============================================================================
